---- MODULE Spec2Model ----
(***************************************************************************)
(* Model of the OEE production dashboard (src/dashboard.py).  The script   *)
(* is re-run top to bottom on every user interaction; pc is the position   *)
(* of the current run.  Tables are sequences of rows; a timestamp is       *)
(* day * TicksPerDay + tick, a calendar date is the day number.            *)
(***************************************************************************)
EXTENDS Integers, Sequences, FiniteSets, TLC

VARIABLES
    pc,                \* position of the script run
    default_exists,    \* does 'oee_data.csv' exist on disk
    entered_password,  \* text typed in the access-code input
    widget_file,       \* file held by the st.file_uploader widget (or NoFile)
    uploaded_file,     \* script variable uploaded_file (line 56/62/73)
    df,                \* script variable df: the active Table (or NoTable)
    message,           \* message returned by load_uploaded_file
    reported,          \* last error shown to the user by st.error
    dashboard,         \* the Table the page body is rendered from (or NoTable)
    selection,         \* selected_machines, selected_shifts, start_date, end_date
    filtered_df,       \* rows kept by the filter
    kpi,               \* the scalar KPIs and what the cards / gauge receive
    pareto             \* the Pareto frame: sequence of [reason, downtime_min, cumulative_pct]

vars == <<pc, default_exists, entered_password, widget_file, uploaded_file, df,
          message, reported, dashboard, selection, filtered_df, kpi, pareto>>

-----------------------------------------------------------------------------
(* Bounds of the model *)

MaxDay == 2          \* calendar days 1..MaxDay
TicksPerDay == 2     \* time-of-day resolution of a timestamp (tick 0 is midnight)
MaxRows == 2         \* longest table given to the filter
MaxParetoRows == 3   \* longest filtered table given to the Pareto computation
MaxDowntime == 2     \* largest downtime_min of a row
MaxMissing == 1      \* most required columns a file lacks in the session model

-----------------------------------------------------------------------------
(* Values *)

\* no file in the uploader / uploaded_file = None
NoFile == [present |-> FALSE, ext |-> "", columns |-> {}, rows |-> << >>]

\* df not assigned (or None returned by load_uploaded_file)
NoTable == [columns |-> {}, rows |-> << >>, date_dtype |-> "none", source |-> "none"]

\* float NaN, as a fraction 0/0
NaN == [num |-> 0, den |-> 0]
IsNaN(x) == x.den = 0

\* a date text pd.to_datetime cannot parse
BadDate == << >>

\* an empty cell read by pandas (NaN in a label column)
NoReason == "<NaN>"

NoError == "none"

UPLOAD_PASSWORD == "oee2024"

required_columns ==
    << "date", "machine", "shift",
       "planned_time_min", "downtime_min", "run_time_min",
       "availability", "performance", "quality",
       "oee", "total_parts", "good_parts", "downtime_reason" >>

Range(s) == { s[i] : i \in 1..Len(s) }

RequiredSet == Range(required_columns)

\* A row of a table: the columns the script reads.  date is a raw text before
\* pd.to_datetime (a <<day, tick>> pair, or BadDate) and a timestamp after it.
MkRow(d, m, s, o, dt, r) ==
    [date |-> d, machine |-> m, shift |-> s, oee |-> o, availability |-> o,
     performance |-> o, quality |-> o, good_parts |-> 1,
     downtime_min |-> dt, downtime_reason |-> r]

-----------------------------------------------------------------------------
(* Conversions *)

\* pd.to_datetime on one parseable value: text <<day, tick>> to a timestamp
ParseDate(txt) == txt[1] * TicksPerDay + txt[2]

\* datetime.date of a timestamp (st.date_input keeps only the calendar date)
DateOf(ts) == ts \div TicksPerDay

\* pd.Timestamp(date): midnight of that day
Timestamp(d) == d * TicksPerDay

\* df['date'] = pd.to_datetime(df['date']): raises when a value does not parse
DatesParse(rows) == \A i \in 1..Len(rows) : rows[i].date # BadDate

ConvertRow(r) == [r EXCEPT !.date = ParseDate(r.date)]

to_datetime(rows) == [i \in 1..Len(rows) |-> ConvertRow(rows[i])]

\* pd.read_csv / pd.read_excel: the frame of a file, date cells still text
read_file(file, source) ==
    [columns |-> file.columns, rows |-> file.rows, date_dtype |-> "object",
     source |-> source]

\* df['date'] = pd.to_datetime(df['date']) on a frame whose dates parse
convert_date(frame) ==
    [frame EXCEPT !.rows = to_datetime(frame.rows), !.date_dtype = "datetime64"]

\* the text of a timestamp in a file: the inverse of ParseDate
date_text(ts) == <<ts \div TicksPerDay, ts % TicksPerDay>>

FileRows(rows) ==
    [i \in 1..Len(rows) |-> [rows[i] EXCEPT !.date = date_text(rows[i].date)]]

-----------------------------------------------------------------------------
(* load_uploaded_file *)

SupportedExt(name_ext) == name_ext \in {".csv", ".xlsx", ".xls"}

\* same, with the last required column left out of the check
missing_columns_short(columns) ==
    SelectSeq(SubSeq(required_columns, 1, Len(required_columns) - 1),
              LAMBDA col : col \notin columns)

\* missing = [col for col in required_columns if col not in df.columns]
missing_columns(columns) ==
    SelectSeq(required_columns, LAMBDA col : col \notin columns)

\* same, without the check of the required columns
load_uploaded_file_unchecked(file) ==
    IF ~SupportedExt(file.ext)
    THEN [raised |-> FALSE, df |-> NoTable, message |-> <<"Unsupported file type">>]
    ELSE IF ~DatesParse(file.rows)
    THEN [raised |-> TRUE, df |-> NoTable, message |-> << >>]
    ELSE [raised |-> FALSE,
          df |-> convert_date(read_file(file, "upload")),
          message |-> <<"File loaded successfully">>]

\* Outcome of load_uploaded_file(file): the returned (df, message) pair, or
\* the exception pd.to_datetime raises.
load_uploaded_file(file) ==
    IF ~SupportedExt(file.ext)
    THEN [raised |-> FALSE, df |-> NoTable, message |-> <<"Unsupported file type">>]
    ELSE LET missing == missing_columns(file.columns) IN
         IF missing # << >>
         THEN [raised |-> FALSE, df |-> NoTable,
               message |-> <<"Missing columns">> \o missing]
         ELSE IF ~DatesParse(file.rows)
         THEN [raised |-> TRUE, df |-> NoTable, message |-> << >>]
         ELSE [raised |-> FALSE,
               df |-> convert_date(read_file(file, "upload")),
               message |-> <<"File loaded successfully">>]

-----------------------------------------------------------------------------
(* load_default_data *)

\* Rows of the bundled oee_data.csv, as raw text
DefaultRows ==
    << MkRow(<<1, 0>>, "M1", "S1", 900, 1, "A"),
       MkRow(<<2, 0>>, "M2", "S2", 500, 2, "B") >>

\* The bundled oee_data.csv: the column layout of the input contract
DefaultFile ==
    [present |-> TRUE, ext |-> ".csv", columns |-> RequiredSet, rows |-> DefaultRows]

\* Outcome of load_default_data(): the frame; st.error + st.stop when
\* pd.read_csv raises FileNotFoundError; any other exception propagates.
\* No column is checked but 'date', which the conversion reads.
load_default_data(exists, file) ==
    IF ~exists
    THEN [stopped |-> TRUE, raised |-> FALSE, df |-> NoTable]
    ELSE IF "date" \notin file.columns \/ ~DatesParse(file.rows)
    THEN [stopped |-> FALSE, raised |-> TRUE, df |-> NoTable]
    ELSE [stopped |-> FALSE, raised |-> FALSE,
          df |-> convert_date(read_file(file, "default"))]

-----------------------------------------------------------------------------
(* Sidebar filters and the filter *)

\* df[col].unique(), as the set of options of the multiselect
unique(rows, col) == { rows[i][col] : i \in 1..Len(rows) }

\* df['date'].min() / .max()
min_date(rows) ==
    CHOOSE t \in unique(rows, "date") : \A u \in unique(rows, "date") : t <= u
max_date(rows) ==
    CHOOSE t \in unique(rows, "date") : \A u \in unique(rows, "date") : t >= u

\* What st.date_input returns untouched: value=[min_date, max_date] as dates
default_selection(rows) ==
    [machines |-> unique(rows, "machine"), shifts |-> unique(rows, "shift"),
     start_date |-> DateOf(min_date(rows)), end_date |-> DateOf(max_date(rows))]

\* Every selection the widgets can return for this table
Selections(rows) ==
    { sel \in [machines : SUBSET unique(rows, "machine"),
                shifts : SUBSET unique(rows, "shift"),
                start_date : DateOf(min_date(rows))..DateOf(max_date(rows)),
                end_date : DateOf(min_date(rows))..DateOf(max_date(rows))] :
        sel.start_date <= sel.end_date }

\* the row mask of lines 159-164
keep_row(r, sel) ==
    /\ r.machine \in sel.machines
    /\ r.shift \in sel.shifts
    /\ r.date >= Timestamp(sel.start_date)
    /\ r.date <= Timestamp(sel.end_date)

filter_rows(rows, sel) == SelectSeq(rows, LAMBDA r : keep_row(r, sel))

-----------------------------------------------------------------------------
(* KPI calculations.  Rates are held in thousandths; a mean is the exact   *)
(* fraction num/den, or NaN (0/0) over zero rows.                          *)

RECURSIVE column_sum(_, _)
column_sum(rows, col) ==
    IF rows = << >> THEN 0 ELSE rows[1][col] + column_sum(Tail(rows), col)

mean(rows, col) ==
    IF Len(rows) = 0 THEN NaN
    ELSE [num |-> column_sum(rows, col), den |-> Len(rows)]

\* f"{x:.1%}": the text "nan%", or the value rounded to tenths of a percent
format_pct(x) ==
    IF IsNaN(x) THEN [text |-> "nan%", tenths |-> 0]
    ELSE [text |-> "number%", tenths |-> (2 * x.num + x.den) \div (2 * x.den)]

\* avg_oee * 100
times_100(x) == IF IsNaN(x) THEN NaN ELSE [num |-> x.num * 100, den |-> x.den]

kpi_calculations(rows) ==
    [avg_oee |-> mean(rows, "oee"),
     avg_availability |-> mean(rows, "availability"),
     avg_performance |-> mean(rows, "performance"),
     avg_quality |-> mean(rows, "quality"),
     total_good_parts |-> column_sum(rows, "good_parts"),
     total_downtime |-> column_sum(rows, "downtime_min")]

kpi_cards(k) ==
    [oee |-> format_pct(k.avg_oee),
     availability |-> format_pct(k.avg_availability),
     performance |-> format_pct(k.avg_performance),
     quality |-> format_pct(k.avg_quality),
     good_parts |-> k.total_good_parts,
     downtime |-> k.total_downtime]

-----------------------------------------------------------------------------
(* Downtime Pareto, lines 258-262 *)

\* sort order of the group keys
ReasonOrder == << "A", "B", "C" >>

\* filtered_df.groupby('downtime_reason')['downtime_min'].sum(): one group per
\* label in key order; rows whose label is NaN belong to no group
group_sum(rows, reason) ==
    column_sum(SelectSeq(rows, LAMBDA r : r.downtime_reason = reason),
               "downtime_min")

group_keys(rows) ==
    SelectSeq(ReasonOrder, LAMBDA k : k \in unique(rows, "downtime_reason"))

groupby_sum(rows) ==
    [i \in 1..Len(group_keys(rows)) |->
        [downtime_reason |-> group_keys(rows)[i],
         downtime_min |-> group_sum(rows, group_keys(rows)[i])]]

Descending(s) ==
    \A i \in 1..Len(s) : \A j \in 1..Len(s) :
        i < j => s[i].downtime_min >= s[j].downtime_min

Ascending(s) ==
    \A i \in 1..Len(s) : \A j \in 1..Len(s) :
        i < j => s[i].downtime_min <= s[j].downtime_min

Arrangements(s) ==
    { p \in [1..Len(s) -> Range(s)] : \A x \in Range(s) : \E i \in 1..Len(s) : p[i] = x }

\* same, sorted the other way
sort_values_ascending(s) == { p \in Arrangements(s) : Ascending(p) }

\* sort_values(ascending=False): the default sort kind is not stable, so every
\* descending arrangement of the groups is a possible result
sort_values_descending(s) == { p \in Arrangements(s) : Descending(p) }

RECURSIVE cumsum(_, _)
cumsum(s, acc) ==
    IF s = << >> THEN << >>
    ELSE <<acc + s[1].downtime_min>> \o cumsum(Tail(s), acc + s[1].downtime_min)

\* pareto['downtime_min'].cumsum() / pareto['downtime_min'].sum() * 100
cumulative_pct(s) ==
    LET total == column_sum(s, "downtime_min")
        cs == cumsum(s, 0)
    IN  [i \in 1..Len(s) |->
            IF total = 0 THEN NaN ELSE [num |-> cs[i] * 100, den |-> total]]

with_cumulative_pct(s) ==
    LET pct == cumulative_pct(s)
    IN  [i \in 1..Len(s) |->
            [downtime_reason |-> s[i].downtime_reason,
             downtime_min |-> s[i].downtime_min,
             cumulative_pct |-> pct[i]]]

-----------------------------------------------------------------------------
(* Inputs *)

Exts == { ".csv", ".xlsx", ".xls", ".CSV" }

\* column sets of an uploaded file: the required columns less up to
\* MaxMissing of them, with or without an extra column
ColumnSets ==
    { (RequiredSet \ m) \cup e :
        m \in { x \in SUBSET RequiredSet : Cardinality(x) <= MaxMissing },
        e \in { {}, {"notes"} } }

GoodRows ==
    << MkRow(<<1, 0>>, "M1", "S1", 900, 1, "A"),
       MkRow(<<2, 1>>, "M2", "S1", 700, 2, NoReason) >>

BadRows ==
    << MkRow(<<1, 0>>, "M1", "S1", 900, 1, "A"),
       MkRow(BadDate, "M2", "S1", 700, 2, "B") >>

Files == [present : {TRUE}, ext : Exts, columns : ColumnSets,
          rows : {GoodRows, BadRows}]

Passwords == { "", UPLOAD_PASSWORD, "wrong" }

RECURSIVE SeqsUpTo(_, _)
SeqsUpTo(S, n) ==
    IF n = 0 THEN { << >> }
    ELSE LET shorter == SeqsUpTo(S, n - 1)
         IN  shorter \cup { Append(q, x) : q \in shorter, x \in S }

Timestamps == { d * TicksPerDay + t : d \in 1..MaxDay, t \in 0..(TicksPerDay - 1) }

\* loaded rows given to the filter
FilterRowSet ==
    { MkRow(ts, m, s, 800, 1, "A") :
        ts \in Timestamps, m \in {"M1", "M2"}, s \in {"S1", "S2"} }

\* filtered rows given to the Pareto computation
ParetoRowSet ==
    { MkRow(Timestamp(1), "M1", "S1", 800, dt, r) :
        dt \in 0..MaxDowntime, r \in Range(ReasonOrder) \cup {NoReason} }

LoadedTable(rows) ==
    [columns |-> RequiredSet, rows |-> rows, date_dtype |-> "datetime64",
     source |-> "upload"]

-----------------------------------------------------------------------------
(* The script run *)

NoSelection == [machines |-> {}, shifts |-> {}, start_date |-> 0, end_date |-> 0]

NoKpi == [computed |-> FALSE, values |-> kpi_calculations(<< >>),
          cards |-> kpi_cards(kpi_calculations(<< >>)), gauge |-> NaN]

ScriptReset ==
    /\ uploaded_file' = NoFile
    /\ df' = NoTable
    /\ message' = << >>
    /\ reported' = NoError
    /\ selection' = NoSelection
    /\ filtered_df' = << >>
    /\ kpi' = NoKpi
    /\ pareto' = << >>

\* first run of a fresh session
Init ==
    /\ pc = "gate"
    /\ default_exists \in BOOLEAN
    /\ entered_password = ""
    /\ widget_file = NoFile
    /\ uploaded_file = NoFile
    /\ df = NoTable
    /\ message = << >>
    /\ reported = NoError
    /\ dashboard = NoTable
    /\ selection = NoSelection
    /\ filtered_df = << >>
    /\ kpi = NoKpi
    /\ pareto = << >>

\* a user interaction re-runs the script from the top with the new widget
\* state; the uploader exists only while the access code is accepted
Rerun ==
    /\ pc \in {"done", "stopped", "crashed"}
    /\ \E pw \in Passwords, f \in Files \cup {NoFile} :
          /\ (pw # UPLOAD_PASSWORD => f = NoFile)
          /\ entered_password' = pw
          /\ widget_file' = f
    /\ pc' = "gate"
    /\ ScriptReset
    /\ UNCHANGED <<default_exists, dashboard>>

\* lines 56-90
AccessGate ==
    /\ pc = "gate"
    /\ uploaded_file' =
          IF entered_password = UPLOAD_PASSWORD THEN widget_file ELSE NoFile
    /\ reported' =
          IF entered_password # UPLOAD_PASSWORD /\ entered_password # ""
          THEN "Incorrect access code" ELSE reported
    /\ pc' = "load"
    /\ UNCHANGED <<default_exists, entered_password, widget_file, df, message,
                   dashboard, selection, filtered_df, kpi, pareto>>

\* lines 92-105
LoadData ==
    /\ pc = "load"
    /\ IF uploaded_file.present
       THEN LET out == load_uploaded_file(uploaded_file) IN
            IF out.raised
            THEN /\ pc' = "crashed"
                 /\ reported' = "DateParseError"
                 /\ dashboard' = NoTable
                 /\ UNCHANGED <<df, message>>
            ELSE IF out.df = NoTable
            THEN /\ pc' = "stopped"
                 /\ message' = out.message
                 /\ reported' = out.message[1]
                 /\ dashboard' = NoTable
                 /\ df' = out.df
            ELSE /\ pc' = "template"
                 /\ message' = out.message
                 /\ df' = out.df
                 /\ UNCHANGED <<reported, dashboard>>
       ELSE LET out == load_default_data(default_exists, DefaultFile) IN
            IF out.stopped
            THEN /\ pc' = "stopped"
                 /\ reported' = "Default dataset not found"
                 /\ dashboard' = NoTable
                 /\ UNCHANGED <<df, message>>
            ELSE IF out.raised
            THEN /\ pc' = "crashed"
                 /\ reported' = "Exception"
                 /\ dashboard' = NoTable
                 /\ UNCHANGED <<df, message>>
            ELSE /\ pc' = "template"
                 /\ df' = out.df
                 /\ UNCHANGED <<message, reported, dashboard>>
    /\ UNCHANGED <<default_exists, entered_password, widget_file, uploaded_file,
                   selection, filtered_df, kpi, pareto>>

\* lines 107-117: pd.read_csv('oee_data.csv') outside any try
SidebarTemplate ==
    /\ pc = "template"
    /\ IF default_exists
       THEN /\ pc' = "filters"
            /\ UNCHANGED <<reported, dashboard>>
       ELSE /\ pc' = "crashed"
            /\ reported' = "FileNotFoundError"
            /\ dashboard' = NoTable
    /\ UNCHANGED <<default_exists, entered_password, widget_file, uploaded_file,
                   df, message, selection, filtered_df, kpi, pareto>>

\* lines 131-154: the widgets return a selection; a date range of which only
\* the start has been picked is a 1-tuple and the unpacking raises
SidebarFilters ==
    /\ pc = "filters"
    /\ Len(df.rows) > 0
    /\ \/ /\ \E sel \in Selections(df.rows) : selection' = sel
          /\ pc' = "filter"
          /\ UNCHANGED <<reported, dashboard>>
       \/ /\ pc' = "crashed"
          /\ reported' = "ValueError"
          /\ dashboard' = NoTable
          /\ UNCHANGED selection
    /\ UNCHANGED <<default_exists, entered_password, widget_file, uploaded_file,
                   df, message, filtered_df, kpi, pareto>>

\* lines 159-167
FilterDataframe ==
    /\ pc = "filter"
    /\ filtered_df' = filter_rows(df.rows, selection)
    /\ pc' = "kpi"
    /\ UNCHANGED <<default_exists, entered_password, widget_file, uploaded_file,
                   df, message, reported, dashboard, selection, kpi, pareto>>

KpiOf(rows) ==
    [computed |-> TRUE, values |-> kpi_calculations(rows),
     cards |-> kpi_cards(kpi_calculations(rows)), gauge |-> NaN]

\* lines 171-220
KpiCalculations ==
    /\ pc = "kpi"
    /\ kpi' = KpiOf(filtered_df)
    /\ pc' = "pareto"
    /\ UNCHANGED <<default_exists, entered_password, widget_file, uploaded_file,
                   df, message, reported, dashboard, selection, filtered_df, pareto>>

\* lines 257-262
DowntimePareto ==
    /\ pc = "pareto"
    /\ \E p \in sort_values_descending(groupby_sum(filtered_df)) :
          pareto' = with_cumulative_pct(p)
    /\ pc' = "gauge"
    /\ UNCHANGED <<default_exists, entered_password, widget_file, uploaded_file,
                   df, message, reported, dashboard, selection, filtered_df, kpi>>

\* lines 292-399: the gauge receives avg_oee * 100 and the page is complete
RenderRest ==
    /\ pc = "gauge"
    /\ kpi' = [kpi EXCEPT !.gauge = times_100(kpi.values.avg_oee)]
    /\ dashboard' = df
    /\ pc' = "done"
    /\ UNCHANGED <<default_exists, entered_password, widget_file, uploaded_file,
                   df, message, reported, selection, filtered_df, pareto>>

Next ==
    \/ Rerun
    \/ AccessGate
    \/ LoadData
    \/ SidebarTemplate
    \/ SidebarFilters
    \/ FilterDataframe
    \/ KpiCalculations
    \/ DowntimePareto
    \/ RenderRest

Spec == Init /\ [][Next]_vars

-----------------------------------------------------------------------------
(* The filter and the aggregation over every small loaded table *)

InitFilter ==
    /\ pc = "filters"
    /\ default_exists = TRUE
    /\ entered_password = UPLOAD_PASSWORD
    /\ \E rows \in SeqsUpTo(FilterRowSet, MaxRows) \ { << >> } :
          /\ df = LoadedTable(rows)
          /\ widget_file = [present |-> TRUE, ext |-> ".csv",
                            columns |-> RequiredSet, rows |-> FileRows(rows)]
    /\ uploaded_file = widget_file
    /\ message = <<"File loaded successfully">>
    /\ reported = NoError
    /\ dashboard = NoTable
    /\ selection = NoSelection
    /\ filtered_df = << >>
    /\ kpi = NoKpi
    /\ pareto = << >>

NextFilter ==
    \/ SidebarFilters
    \/ FilterDataframe
    \/ KpiCalculations
    \/ DowntimePareto
    \/ RenderRest

SpecFilter == InitFilter /\ [][NextFilter]_vars

-----------------------------------------------------------------------------
(* The Pareto computation over every small filtered table *)

InitPareto ==
    /\ pc = "pareto"
    /\ default_exists = TRUE
    /\ entered_password = UPLOAD_PASSWORD
    /\ \E rows \in SeqsUpTo(ParetoRowSet, MaxParetoRows) :
          /\ df = LoadedTable(IF rows = << >> THEN to_datetime(DefaultRows) ELSE rows)
          /\ selection = IF rows = << >>
                         THEN [default_selection(df.rows) EXCEPT !.machines = {}]
                         ELSE default_selection(rows)
    /\ widget_file = [present |-> TRUE, ext |-> ".csv",
                      columns |-> RequiredSet, rows |-> FileRows(df.rows)]
    /\ uploaded_file = widget_file
    /\ message = <<"File loaded successfully">>
    /\ reported = NoError
    /\ dashboard = NoTable
    /\ filtered_df = filter_rows(df.rows, selection)
    /\ kpi = KpiOf(filtered_df)
    /\ pareto = << >>

NextPareto == DowntimePareto

SpecPareto == InitPareto /\ [][NextPareto]_vars

-----------------------------------------------------------------------------
(* load_uploaded_file over every uploaded file *)

AllColumnSets == SUBSET (RequiredSet \cup {"notes"})

InitLoad ==
    /\ pc = "gate"
    /\ default_exists = TRUE
    /\ entered_password = UPLOAD_PASSWORD
    /\ widget_file \in [present : {TRUE}, ext : Exts, columns : AllColumnSets,
                        rows : {GoodRows, BadRows}]
    /\ uploaded_file = NoFile
    /\ df = NoTable
    /\ message = << >>
    /\ reported = NoError
    /\ dashboard = NoTable
    /\ selection = NoSelection
    /\ filtered_df = << >>
    /\ kpi = NoKpi
    /\ pareto = << >>

NextLoad ==
    \/ AccessGate
    \/ LoadData

SpecLoad == InitLoad /\ [][NextLoad]_vars

-----------------------------------------------------------------------------
(* Properties *)

LoadFails(file) ==
    LET out == load_uploaded_file(file) IN out.raised \/ out.df = NoTable

Loaded == pc \in {"template", "stopped", "crashed"} /\ uploaded_file.present

Absent == RequiredSet \ uploaded_file.columns

RejectedForColumns ==
    /\ pc = "stopped"
    /\ df = NoTable
    /\ Len(message) >= 1
    /\ message[1] = "Missing columns"

Accepted ==
    /\ pc = "template"
    /\ df.source = "upload"
    /\ message = <<"File loaded successfully">>

ReportsExactlyAbsent ==
    /\ Range(Tail(message)) = Absent
    /\ Len(Tail(message)) = Cardinality(Absent)

\* C1 (as amended): for an uploaded table with a supported extension,
\* load_uploaded_file returns the missing-columns rejection exactly when a
\* required column is absent, and the names it reports are exactly the absent
\* required columns, each once; a table with all required columns, with or
\* without extras, is accepted when every date value parses, and otherwise
\* pd.to_datetime raises and no table is returned.
C1_ValidatorAmended ==
    (Loaded /\ SupportedExt(uploaded_file.ext)) =>
        /\ RejectedForColumns <=> (Absent # {})
        /\ RejectedForColumns => ReportsExactlyAbsent
        /\ (Absent = {}) => (Accepted <=> DatesParse(uploaded_file.rows))
        /\ (Absent = {} /\ ~DatesParse(uploaded_file.rows)) =>
              (pc = "crashed" /\ reported = "DateParseError" /\ df = NoTable)

\* C1 (as stated): the upload is rejected exactly when a required column is
\* absent, naming exactly the absent columns, and a table with all required
\* columns is accepted.
C1_ValidatorOriginal ==
    (Loaded /\ SupportedExt(uploaded_file.ext)) =>
        /\ RejectedForColumns <=> (Absent # {})
        /\ RejectedForColumns => ReportsExactlyAbsent
        /\ (Absent = {}) => Accepted

\* a file without the quality column has been rejected naming quality alone
C1_Witness ==
    /\ Loaded
    /\ SupportedExt(uploaded_file.ext)
    /\ Absent = {"quality"}
    /\ "notes" \in uploaded_file.columns
    /\ pc = "stopped"
    /\ message = <<"Missing columns", "quality">>

Handed == pc \in {"filters", "filter", "kpi", "pareto", "gauge"}

C7_LoadFailureKeepsTable ==
    [][ (pc = "load" /\ uploaded_file.present /\ LoadFails(uploaded_file)
            /\ dashboard # NoTable)
        => (dashboard' = dashboard /\ pc' \notin {"stopped", "crashed"}) ]_vars

\* C8: with a valid upload the run is not ended by the absence of the default
\* dataset file.
C8_UploadUsableWithoutDefault ==
    (~default_exists /\ df.source = "upload") =>
        ~(pc = "crashed" /\ reported = "FileNotFoundError")

Filtered == pc \in {"kpi", "pareto", "gauge", "done"}

\* the rows a selection names: machine and shift selected, calendar date of
\* the row within [start_date, end_date]
selected_by_date(rows, sel) ==
    SelectSeq(rows, LAMBDA r :
        /\ r.machine \in sel.machines
        /\ r.shift \in sel.shifts
        /\ sel.start_date <= DateOf(r.date)
        /\ DateOf(r.date) <= sel.end_date)

\* C2: the filtered table is exactly the records, in order, whose machine and
\* shift are selected and whose date lies in [start, end], both days included.
C2_FilterIsSelectedSubsequence ==
    Filtered => filtered_df = selected_by_date(df.rows, selection)

\* C3: filtering with the selection the widgets offer by default returns the
\* loaded table.
C3_DefaultSelectionKeepsAll ==
    (Filtered /\ selection = default_selection(df.rows)) => filtered_df = df.rows

\* C6: over an empty filtered table no NaN mean reaches a KPI card or the
\* gauge.
C6_EmptyDatasetFallback ==
    (pc = "done" /\ filtered_df = << >>) =>
        /\ kpi.cards.oee.text # "nan%"
        /\ kpi.cards.availability.text # "nan%"
        /\ kpi.cards.performance.text # "nan%"
        /\ kpi.cards.quality.text # "nan%"
        /\ ~IsNaN(kpi.gauge)

ParetoDone == pc = "gauge"

\* C4: when the total downtime of the filtered table is positive, the
\* cumulative percentages are defined, non-decreasing, within [0,100], and the
\* last one is 100.
C4_CumulativePct ==
    (ParetoDone /\ kpi.values.total_downtime > 0) =>
        /\ \A i \in 1..Len(pareto) :
              /\ ~IsNaN(pareto[i].cumulative_pct)
              /\ 0 <= pareto[i].cumulative_pct.num
              /\ pareto[i].cumulative_pct.num <= 100 * pareto[i].cumulative_pct.den
        /\ \A i \in 1..Len(pareto) : \A j \in 1..Len(pareto) :
              i < j => pareto[i].cumulative_pct.num * pareto[j].cumulative_pct.den
                          <= pareto[j].cumulative_pct.num * pareto[i].cumulative_pct.den
        /\ Len(pareto) > 0 =>
              pareto[Len(pareto)].cumulative_pct.num
                 = 100 * pareto[Len(pareto)].cumulative_pct.den

\* C5: the per-reason sums of the Pareto add up to the Total Downtime KPI.
C5_GroupSumsEqualTotal ==
    ParetoDone => column_sum(pareto, "downtime_min") = kpi.values.total_downtime

first_appearance(rows, reason) ==
    CHOOSE i \in 1..Len(rows) :
        /\ rows[i].downtime_reason = reason
        /\ \A j \in 1..(i - 1) : rows[j].downtime_reason # reason

\* C10 (as stated): the groups are in descending order of summed downtime, and
\* reasons with equal sums are in the order of their first appearance in the
\* filtered table.
C10_StableDescending ==
    ParetoDone =>
        /\ Descending(pareto)
        /\ \A i \in 1..Len(pareto) : \A j \in 1..Len(pareto) :
              (i < j /\ pareto[i].downtime_min = pareto[j].downtime_min) =>
                 first_appearance(filtered_df, pareto[i].downtime_reason)
                    < first_appearance(filtered_df, pareto[j].downtime_reason)

\* C10 (as amended): the groups are one per non-empty reason of the filtered
\* table, each with the sum of its rows' downtime, in descending order of that
\* sum; the order of reasons with equal sums is not fixed.
C10_Descending ==
    ParetoDone =>
        /\ Descending(pareto)
        /\ { pareto[i].downtime_reason : i \in 1..Len(pareto) }
              = unique(filtered_df, "downtime_reason") \ {NoReason}
        /\ Len(pareto) = Cardinality(unique(filtered_df, "downtime_reason") \ {NoReason})
        /\ \A i \in 1..Len(pareto) :
              pareto[i].downtime_min = group_sum(filtered_df, pareto[i].downtime_reason)

\* two reasons with equal sums placed against their order of first appearance,
\* after a reason with a larger sum
C10_Witness ==
    /\ ParetoDone
    /\ Len(pareto) = 3
    /\ pareto[1].downtime_min > pareto[2].downtime_min
    /\ pareto[2].downtime_min = pareto[3].downtime_min
    /\ first_appearance(filtered_df, pareto[2].downtime_reason)
          > first_appearance(filtered_df, pareto[3].downtime_reason)

====
